---------------------------- MODULE Spec2Model ----------------------------
(***************************************************************************)
(* A model of prettiprint's ConsoleUtils (src/src/prettiprint/prettiprint.py):*)
(* theme resolution, verbosity gating, per-call style resolution, secret     *)
(* masking and box-shape lookup.                                             *)
(*                                                                           *)
(* Python str values that the code converts (lower, upper, strip, replace,   *)
(* slicing, concatenation) are sequences of one-character strings; style     *)
(* descriptors, which the code only passes on, are plain strings.            *)
(***************************************************************************)
EXTENDS Integers, Sequences, FiniteSets, TLC

(* ---------- str helpers ---------- *)

\* The ASCII part of str.lower(): upper-case letter -> lower-case letter.
LowerMap ==
       "A" :> "a"
    @@ "B" :> "b"
    @@ "C" :> "c"
    @@ "D" :> "d"
    @@ "E" :> "e"
    @@ "F" :> "f"
    @@ "G" :> "g"
    @@ "H" :> "h"
    @@ "I" :> "i"
    @@ "J" :> "j"
    @@ "K" :> "k"
    @@ "L" :> "l"
    @@ "M" :> "m"
    @@ "N" :> "n"
    @@ "O" :> "o"
    @@ "P" :> "p"
    @@ "Q" :> "q"
    @@ "R" :> "r"
    @@ "S" :> "s"
    @@ "T" :> "t"
    @@ "U" :> "u"
    @@ "V" :> "v"
    @@ "W" :> "w"
    @@ "X" :> "x"
    @@ "Y" :> "y"
    @@ "Z" :> "z"

\* The ASCII part of str.upper(): lower-case letter -> upper-case letter.
UpperMap ==
       "a" :> "A"
    @@ "b" :> "B"
    @@ "c" :> "C"
    @@ "d" :> "D"
    @@ "e" :> "E"
    @@ "f" :> "F"
    @@ "g" :> "G"
    @@ "h" :> "H"
    @@ "i" :> "I"
    @@ "j" :> "J"
    @@ "k" :> "K"
    @@ "l" :> "L"
    @@ "m" :> "M"
    @@ "n" :> "N"
    @@ "o" :> "O"
    @@ "p" :> "P"
    @@ "q" :> "Q"
    @@ "r" :> "R"
    @@ "s" :> "S"
    @@ "t" :> "T"
    @@ "u" :> "U"
    @@ "v" :> "V"
    @@ "w" :> "W"
    @@ "x" :> "X"
    @@ "y" :> "Y"
    @@ "z" :> "Z"

\* s.lower()
lower(s) == [i \in 1..Len(s) |-> IF s[i] \in DOMAIN LowerMap THEN LowerMap[s[i]] ELSE s[i]]

\* s.upper()
upper(s) == [i \in 1..Len(s) |-> IF s[i] \in DOMAIN UpperMap THEN UpperMap[s[i]] ELSE s[i]]

\* s.replace(a, b) for one-character a and b
replace(s, a, b) == [i \in 1..Len(s) |-> IF s[i] = a THEN b ELSE s[i]]

\* The characters str.strip() removes, among those drawn.
Whitespace == {" ", "\t", "\n"}

RECURSIVE lstrip(_)
lstrip(s) == IF s # <<>> /\ Head(s) \in Whitespace THEN lstrip(Tail(s)) ELSE s

RECURSIVE rstrip(_)
rstrip(s) ==
    IF s # <<>> /\ s[Len(s)] \in Whitespace THEN rstrip(SubSeq(s, 1, Len(s) - 1)) ELSE s

\* s.strip()
strip(s) == rstrip(lstrip(s))

\* c * n for a str c and an int n (empty when n <= 0)
RECURSIVE repeat(_, _)
repeat(c, n) == IF n <= 0 THEN <<>> ELSE c \o repeat(c, n - 1)

\* s[:k] for k >= 0
prefix(s, k) == SubSeq(s, 1, IF k < Len(s) THEN k ELSE Len(s))

\* The value None, where an argument is Optional[str] holding a style descriptor.
None == "<None>"

\* Python truthiness of an Optional[str]: None and "" are false.
truthy(x) == x # None /\ x # ""

(* ---------- Theme Presets ---------- *)

\* The role keys of the presets, and the other keys the methods look up.
r_accent == <<"a", "c", "c", "e", "n", "t">>
r_rule == <<"r", "u", "l", "e">>
r_success == <<"s", "u", "c", "c", "e", "s", "s">>
r_info == <<"i", "n", "f", "o">>
r_warning == <<"w", "a", "r", "n", "i", "n", "g">>
r_error == <<"e", "r", "r", "o", "r">>
r_panel == <<"p", "a", "n", "e", "l">>
r_header == <<"h", "e", "a", "d", "e", "r">>
r_table_header == <<"t", "a", "b", "l", "e", ".", "h", "e", "a", "d", "e", "r">>
r_key == <<"k", "e", "y">>
r_value == <<"v", "a", "l", "u", "e">>
r_code_border == <<"c", "o", "d", "e", ".", "b", "o", "r", "d", "e", "r">>
r_event_INFO == <<"e", "v", "e", "n", "t", ".", "I", "N", "F", "O">>
r_event_SUCCESS == <<"e", "v", "e", "n", "t", ".", "S", "U", "C", "C", "E", "S", "S">>
r_event_WARNING == <<"e", "v", "e", "n", "t", ".", "W", "A", "R", "N", "I", "N", "G">>
r_event_ERROR == <<"e", "v", "e", "n", "t", ".", "E", "R", "R", "O", "R">>
r_event_DEBUG == <<"e", "v", "e", "n", "t", ".", "D", "E", "B", "U", "G">>

n_dark == <<"d", "a", "r", "k">>
n_light == <<"l", "i", "g", "h", "t">>
n_mono == <<"m", "o", "n", "o">>

dark_styles ==
       r_accent :> "bold white on #3b82f6"
    @@ r_rule :> "dim"
    @@ r_success :> "bold green"
    @@ r_info :> "bold cyan"
    @@ r_warning :> "bold yellow"
    @@ r_error :> "bold red"
    @@ r_panel :> "cyan"
    @@ r_header :> "bold white on #0ea5e9"
    @@ r_table_header :> "bold magenta"
    @@ r_key :> "bold green"
    @@ r_value :> "white"
    @@ r_code_border :> "magenta"
    @@ r_event_INFO :> "cyan"
    @@ r_event_SUCCESS :> "green"
    @@ r_event_WARNING :> "yellow"
    @@ r_event_ERROR :> "red"

light_styles ==
       r_accent :> "bold black on #93c5fd"
    @@ r_rule :> "grey66"
    @@ r_success :> "green"
    @@ r_info :> "blue"
    @@ r_warning :> "dark_orange"
    @@ r_error :> "red"
    @@ r_panel :> "blue"
    @@ r_header :> "bold black on #7dd3fc"
    @@ r_table_header :> "bold purple"
    @@ r_key :> "blue"
    @@ r_value :> "black"
    @@ r_code_border :> "purple"
    @@ r_event_INFO :> "blue"
    @@ r_event_SUCCESS :> "green"
    @@ r_event_WARNING :> "dark_orange"
    @@ r_event_ERROR :> "red"

mono_styles ==
       r_accent :> "reverse"
    @@ r_rule :> "dim"
    @@ r_success :> "bold"
    @@ r_info :> "bold"
    @@ r_warning :> "bold"
    @@ r_error :> "bold"
    @@ r_panel :> "white"
    @@ r_header :> "reverse"
    @@ r_table_header :> "bold"
    @@ r_key :> "bold"
    @@ r_value :> "white"
    @@ r_code_border :> "white"
    @@ r_event_INFO :> "white"
    @@ r_event_SUCCESS :> "white"
    @@ r_event_WARNING :> "white"
    @@ r_event_ERROR :> "white"

\* _PRESET_THEMES as the module defines it: theme name -> (role -> descriptor).
PRESET_THEMES_0 == n_dark :> dark_styles @@ n_light :> light_styles @@ n_mono :> mono_styles

\* The keys of _PRESET_THEMES in insertion order (the order ', '.join gives).
PRESET_ORDER == <<n_dark, n_light, n_mono>>

(* ---------- State ---------- *)

VARIABLES
    PRESET_THEMES,  \* the module-level dict _PRESET_THEMES
    cu,             \* the ConsoleUtils instance: _console, _styles, _config
    pc,             \* "new": no instance yet; "ready": constructed;
                    \* "call"/"done": a helper function about to run / returned
    op,             \* the call made last (or, at "call", about to be made)
    out,            \* the calls the last operation made on the Console
    exc,            \* the exception the last operation raised, or NoExc
    ret             \* <<v>> when the last operation returned the str v, else <<>>

vars == <<PRESET_THEMES, cu, pc, op, out, exc, ret>>

\* No instance: what the name is bound to before __init__ has returned.
Unset == [console |-> <<>>, styles |-> <<>>, config |-> <<>>]

NoExc == [type |-> "None", msg |-> "", theme |-> <<>>, choices |-> <<>>]

\* ValueError(f"Unknown theme '{theme}'. Choose from: {', '.join(_PRESET_THEMES)}")
UnknownTheme(theme) ==
    [type |-> "ValueError", msg |-> "Unknown theme",
     theme |-> theme,
     choices |-> SelectSeq(PRESET_ORDER, LAMBDA n : n \in DOMAIN PRESET_THEMES)]

\* rich.errors.StyleSyntaxError, raised by Theme(merged) on a descriptor that
\* Style.parse cannot parse.
StyleSyntaxError ==
    [type |-> "StyleSyntaxError", msg |-> "unable to parse", theme |-> <<>>, choices |-> <<>>]

\* ValueError raised by int(size) on a str that is no integer literal.
IntValueError ==
    [type |-> "ValueError", msg |-> "invalid literal for int()", theme |-> <<>>, choices |-> <<>>]

\* rich.errors.MissingStyle, raised while console.print renders when
\* Console.get_style is handed a descriptor that names no style of the theme
\* and that Style.parse cannot parse.
MissingStyle ==
    [type |-> "MissingStyle", msg |-> "Failed to get style", theme |-> <<>>, choices |-> <<>>]

\* What a method does: the instance afterwards, the Console calls made, the
\* exception raised (NoExc when it returned), the str returned, if any, and
\* _PRESET_THEMES afterwards (no method assigns to it or to a dict in it).
Return(self, calls) ==
    [self |-> self, out |-> calls, exc |-> NoExc, ret |-> <<>>, presets |-> PRESET_THEMES]

ReturnValue(self, v) ==
    [self |-> self, out |-> <<>>, exc |-> NoExc, ret |-> <<v>>, presets |-> PRESET_THEMES]

Raise(self, calls, e) ==
    [self |-> self, out |-> calls, exc |-> e, ret |-> <<>>, presets |-> PRESET_THEMES]

(* ---------- The Console (rich) as the methods use it ---------- *)

\* Descriptors rich's Style.parse rejects ("not" must be followed by an attribute).
InvalidDescriptors == {"not a style"}

\* Theme(merged) parses every descriptor of the mapping; it raises on the first
\* it cannot parse.
ThemeParses(merged) == \A k \in DOMAIN merged : merged[k] \notin InvalidDescriptors

\* Console(theme=Theme(merged), emoji=emoji, soft_wrap=False)
Console(merged, emoji) == [theme |-> merged, emoji |-> emoji]

\* One call on the Console: console.print(...) or console.rule(...), with the
\* styles handed over (attribute -> descriptor), the visible text and, for a
\* Panel, its box.
ConsoleCall(method, kind, style, text, bx) ==
    [method |-> method, kind |-> kind, style |-> style, text |-> text, box |-> bx]

NoStyle == [none |-> ""]

\* self._console.print(renderable), after the calls made before it: the call
\* is made, and rendering resolves the descriptors of resolved (a Panel's style
\* and border_style, a Table's header_style and its columns' styles) with
\* Console.get_style, which raises MissingStyle on one it cannot parse; nothing
\* is written then, and the method is left by the exception. Styles inside
\* markup are resolved with a default and never raise. No descriptor drawn is
\* the name of a style of the theme.
console_print(self, before, call, resolved) ==
    IF \E d \in resolved : d \in InvalidDescriptors
    THEN Raise(self, before \o <<call>>, MissingStyle)
    ELSE Return(self, before \o <<call>>)

(* ---------- Construction and configuration ---------- *)

\* {**base, **(custom_styles or {})}; custom_styles None and {} are both <<>>.
MergedStyles(base, custom_styles) ==
    [k \in DOMAIN base \cup DOMAIN custom_styles |->
        IF k \in DOMAIN custom_styles THEN custom_styles[k] ELSE base[k]]

\* ConsoleUtils.__init__
ConsoleUtils(theme, emoji, timestamps, verbosity, enable_tracebacks, custom_styles) ==
    LET theme_name == lower(theme) IN
    IF theme_name \notin DOMAIN PRESET_THEMES
    THEN Raise(Unset, <<>>, UnknownTheme(theme))
    ELSE LET merged == MergedStyles(PRESET_THEMES[theme_name], custom_styles) IN
         IF ~ThemeParses(merged)
         THEN Raise(Unset, <<>>, StyleSyntaxError)
         ELSE Return([console |-> Console(merged, emoji),
                      styles  |-> merged,
                      config  |-> [theme |-> theme_name,
                                   emoji |-> emoji,
                                   timestamps |-> timestamps,
                                   verbosity |-> verbosity,
                                   enable_tracebacks |-> enable_tracebacks]],
                     <<>>)

\* set_theme as it would be with the preset looked up under the name as given,
\* without lower().
set_theme_case_sensitive(self, theme, custom_styles) ==
    IF theme \notin DOMAIN PRESET_THEMES
    THEN Raise(self, <<>>, UnknownTheme(theme))
    ELSE LET merged == MergedStyles(PRESET_THEMES[theme], custom_styles)
             s1 == [self EXCEPT !.styles = merged]
         IN  IF ~ThemeParses(merged)
             THEN Raise(s1, <<>>, StyleSyntaxError)
             ELSE Return([s1 EXCEPT !.console = Console(merged, self.config.emoji),
                                    !.config.theme = theme],
                         <<>>)

\* set_theme as it would be with the new mapping merged onto the current one,
\* so that roles of earlier overrides stay.
set_theme_keeping_overrides(self, theme, custom_styles) ==
    LET name == lower(theme) IN
    IF name \notin DOMAIN PRESET_THEMES
    THEN Raise(self, <<>>, UnknownTheme(theme))
    ELSE LET merged == MergedStyles(MergedStyles(self.styles, PRESET_THEMES[name]),
                                    custom_styles)
             s1 == [self EXCEPT !.styles = merged]
         IN  IF ~ThemeParses(merged)
             THEN Raise(s1, <<>>, StyleSyntaxError)
             ELSE Return([s1 EXCEPT !.console = Console(merged, self.config.emoji),
                                    !.config.theme = name],
                         <<>>)

\* ConsoleUtils.set_theme: _styles is assigned before the Console is built.
set_theme(self, theme, custom_styles) ==
    LET name == lower(theme) IN
    IF name \notin DOMAIN PRESET_THEMES
    THEN Raise(self, <<>>, UnknownTheme(theme))
    ELSE LET merged == MergedStyles(PRESET_THEMES[name], custom_styles)
             s1 == [self EXCEPT !.styles = merged]
         IN  IF ~ThemeParses(merged)
             THEN Raise(s1, <<>>, StyleSyntaxError)
             ELSE Return([s1 EXCEPT !.console = Console(merged, self.config.emoji),
                                    !.config.theme = name],
                         <<>>)

max(a, b) == IF a >= b THEN a ELSE b
min(a, b) == IF a <= b THEN a ELSE b

\* set_verbosity as it would be without the lower clamp: min(3, level).
set_verbosity_no_floor(self, level) ==
    Return([self EXCEPT !.config.verbosity = min(3, level)], <<>>)

\* ConsoleUtils.set_verbosity
set_verbosity(self, level) ==
    Return([self EXCEPT !.config.verbosity = max(0, min(3, level))], <<>>)

\* mask_secret as it would be with the mask repeated len(secret) times after the
\* kept prefix.
mask_secret_overlong(secret, keep, mask) ==
    IF keep <= 0 THEN repeat(mask, Len(secret))
    ELSE IF Len(secret) <= keep THEN secret
    ELSE prefix(secret, keep) \o repeat(mask, Len(secret))

\* ConsoleUtils.mask_secret (a staticmethod; secret is a str)
mask_secret(secret, keep, mask) ==
    IF keep <= 0 THEN repeat(mask, Len(secret))
    ELSE IF Len(secret) <= keep THEN secret
    ELSE prefix(secret, keep) \o repeat(mask, Len(secret) - keep)
\* The dict `mapping` of _resolve_box: normalised name -> rich.box constant.
box_mapping ==
       <<"R", "O", "U", "N", "D", "E", "D">> :> "ROUNDED"
    @@ <<"R", "O", "U", "N", "D">> :> "ROUNDED"
    @@ <<"S", "Q", "U", "A", "R", "E">> :> "SQUARE"
    @@ <<"H", "E", "A", "V", "Y">> :> "HEAVY"
    @@ <<"T", "H", "I", "C", "K">> :> "HEAVY"
    @@ <<"D", "O", "U", "B", "L", "E">> :> "DOUBLE"
    @@ <<"A", "S", "C", "I", "I">> :> "ASCII"
    @@ <<"M", "I", "N", "I", "M", "A", "L">> :> "MINIMAL"
    @@ <<"M", "I", "N", "I", "M", "A", "L", "_", "H", "E", "A", "V", "Y">> :> "MINIMAL_HEAVY_HEAD"
    @@ <<"M", "I", "N", "I", "M", "A", "L", "_", "D", "O", "U", "B", "L", "E">> :> "MINIMAL_DOUBLE_HEAD"
    @@ <<"S", "I", "M", "P", "L", "E">> :> "SIMPLE"
    @@ <<"S", "I", "M", "P", "L", "E", "_", "H", "E", "A", "V", "Y">> :> "SIMPLE_HEAVY"
    @@ <<"S", "I", "M", "P", "L", "E", "_", "H", "E", "A", "D">> :> "SIMPLE_HEAD"

\* The keyword arguments of spacer, and the literals the methods compare with.
k_small == <<"s", "m", "a", "l", "l">>
k_s == <<"s">>
k_medium == <<"m", "e", "d", "i", "u", "m">>
k_m == <<"m">>
k_large == <<"l", "a", "r", "g", "e">>
k_l == <<"l">>
DEBUG == <<"D", "E", "B", "U", "G">>
event_dot == <<"e", "v", "e", "n", "t", ".">>

\* The decimal digits int() reads.
DigitVal ==
       "0" :> 0
    @@ "1" :> 1
    @@ "2" :> 2
    @@ "3" :> 3
    @@ "4" :> 4
    @@ "5" :> 5
    @@ "6" :> 6
    @@ "7" :> 7
    @@ "8" :> 8
    @@ "9" :> 9

(* ---------- Internals ---------- *)

\* dict.get(key, default)
get(d, key, default) == IF key \in DOMAIN d THEN d[key] ELSE default

\* _resolve_box as it would be without upper(): a case-sensitive lookup.
resolve_box_case_sensitive(box_like) ==
    IF box_like.tag = "None" THEN "ROUNDED"
    ELSE IF box_like.tag = "Box" THEN box_like.box
    ELSE LET key == replace(replace(strip(box_like.s), "-", "_"), " ", "_")
         IN  get(box_mapping, key, "ROUNDED")

\* ConsoleUtils._resolve_box. box_like is None ([tag |-> "None"]), a rich.box.Box
\* ([tag |-> "Box", box |-> constant]) or a str ([tag |-> "str", s |-> chars]).
resolve_box(box_like) ==
    IF box_like.tag = "None" THEN "ROUNDED"
    ELSE IF box_like.tag = "Box" THEN box_like.box
    ELSE LET key == replace(replace(upper(strip(box_like.s)), "-", "_"), " ", "_")
         IN  get(box_mapping, key, "ROUNDED")

\* int(s) for a str of decimal digits, most significant first.
RECURSIVE digits_value(_)
digits_value(s) ==
    IF s = <<>> THEN 0 ELSE 10 * digits_value(SubSeq(s, 1, Len(s) - 1)) + DigitVal[s[Len(s)]]

\* Whether int(size) raises: an int never does; a str does unless it is a
\* non-empty run of decimal digits (signs, blanks and underscores are not drawn).
int_raises(size) ==
    size.tag = "str" /\ (size.s = <<>> \/ \E i \in 1..Len(size.s) : size.s[i] \notin DOMAIN DigitVal)

\* int(size) where it does not raise
int(size) == IF size.tag = "int" THEN size.n ELSE digits_value(size.s)

(* ---------- Structure ---------- *)

\* console.print("")
blank_line == ConsoleCall("print", "blank", NoStyle, <<>>, "")

\* for _ in range(lines): self._console.print("")
RECURSIVE blank_lines(_)
blank_lines(lines) == IF lines <= 0 THEN <<>> ELSE <<blank_line>> \o blank_lines(lines - 1)

\* ConsoleUtils.spacer: no verbosity check. size is an int ([tag |-> "int", n |-> n])
\* or a str ([tag |-> "str", s |-> chars]).
spacer(self, size) ==
    IF size.tag = "str" /\ size.s \in {k_small, k_s} THEN Return(self, blank_lines(1))
    ELSE IF size.tag = "str" /\ size.s \in {k_medium, k_m} THEN Return(self, blank_lines(2))
    ELSE IF size.tag = "str" /\ size.s \in {k_large, k_l} THEN Return(self, blank_lines(3))
    ELSE IF int_raises(size) THEN Raise(self, <<>>, IntValueError)
    ELSE Return(self, blank_lines(int(size)))

\* ConsoleUtils.header: the style is the argument or the literal "bold cyan",
\* put in the title's markup, where the Console resolves it with a default;
\* self.spacer() before and after the rule.
header(self, msg, style) ==
    IF self.config.verbosity = 0 THEN Return(self, <<>>)
    ELSE LET st == IF truthy(style) THEN style ELSE "bold cyan"
         IN  Return(self,
                    spacer(self, [tag |-> "int", n |-> 1]).out
                    \o <<ConsoleCall("rule", "header", [title |-> st], msg, "")>>
                    \o spacer(self, [tag |-> "int", n |-> 1]).out)

\* ConsoleUtils.rule: the label style is markup and the line style the style of
\* a Text, both resolved by the Console with a default.
rule(self, label, label_style, line_style) ==
    IF self.config.verbosity = 0 THEN Return(self, <<>>)
    ELSE LET ls == IF truthy(label_style) THEN label_style ELSE "#cccccc"
             ln == IF truthy(line_style) THEN line_style ELSE get(self.styles, r_rule, "dim")
         IN  IF label # <<>>
             THEN Return(self, <<ConsoleCall("rule", "rule", [label |-> ls, line |-> ln], label, "")>>)
             ELSE Return(self, <<ConsoleCall("rule", "rule", [line |-> ln], <<>>, "")>>)

\* ConsoleUtils.panel (title, expand and padding are handed on unread and are
\* left out): style is passed on whenever it is not None. The Console resolves
\* border_style and style when it renders the Panel.
panel(self, message, style, border_style, box_like) ==
    IF self.config.verbosity = 0 THEN Return(self, <<>>)
    ELSE LET border == IF truthy(border_style) THEN border_style ELSE self.styles[r_panel]
         IN  console_print(self, <<>>,
                           ConsoleCall("print", "panel",
                                       IF style # None
                                       THEN [border |-> border, interior |-> style]
                                       ELSE [border |-> border],
                                       message, resolve_box(box_like)),
                           {border} \cup (IF style # None THEN {style} ELSE {}))

\* ConsoleUtils.markdown
markdown(self, text) ==
    IF self.config.verbosity = 0 THEN Return(self, <<>>)
    ELSE Return(self, <<ConsoleCall("print", "markdown", NoStyle, text, "")>>)

\* ConsoleUtils.code (language, title and wrap are handed on unread)
code(self, text) ==
    IF self.config.verbosity = 0 THEN Return(self, <<>>)
    ELSE console_print(self, <<>>,
                       ConsoleCall("print", "code",
                                   [border |-> self.styles[r_code_border]], text, ""),
                       {self.styles[r_code_border]})

(* ---------- Messages ---------- *)

\* The body shared by success, info, warning and error: one print of the
\* message marked up with the descriptor of the method's own role.
message_line(self, role, kind, message) ==
    IF self.config.verbosity = 0 THEN Return(self, <<>>)
    ELSE Return(self, <<ConsoleCall("print", kind, [markup |-> self.styles[role]], message, "")>>)

\* ConsoleUtils.success
success(self, message) == message_line(self, r_success, "success", message)

\* ConsoleUtils.info
info(self, message) == message_line(self, r_info, "info", message)

\* ConsoleUtils.warning
warning(self, message) == message_line(self, r_warning, "warning", message)

\* ConsoleUtils.error
error(self, message) == message_line(self, r_error, "error", message)

\* The width of the level field in an event line: f"{lvl:<7}"
LevelWidth == 7

\* f"{s:<w}" as it would be if it cut s to w characters as well as padding it.
ljust_truncating(s, w) == prefix(s \o repeat(<<" ">>, w - Len(s)), w)

\* f"{s:<w}": s padded with blanks on the right to w characters, never cut.
ljust(s, w) == s \o repeat(<<" ">>, w - Len(s))

\* event as it would be with the role built from the level as given, before
\* upper().
event_role_as_given(self, message, level, now) ==
    IF self.config.verbosity = 0 THEN Return(self, <<>>)
    ELSE LET lvl == upper(level) IN
         IF self.config.verbosity < 2 THEN Return(self, <<>>)
         ELSE IF self.config.verbosity < 3 /\ lvl = DEBUG THEN Return(self, <<>>)
         ELSE LET ts == IF self.config.timestamps THEN now ELSE <<>>
                  color == get(self.styles, event_dot \o level, self.styles[r_info])
                  pre == IF ts # <<>>
                         THEN <<"[">> \o ts \o <<"]", " ">> \o ljust(lvl, LevelWidth) \o <<" ">>
                         ELSE ljust(lvl, LevelWidth) \o <<" ">>
              IN  Return(self, <<ConsoleCall("print", "event", [prefix |-> color],
                                             pre \o message, "")>>)

\* ConsoleUtils.event; now is datetime.now().strftime("%Y-%m-%d %H:%M:%S").
event(self, message, level, now) ==
    IF self.config.verbosity = 0 THEN Return(self, <<>>)
    ELSE LET lvl == upper(level) IN
         IF self.config.verbosity < 2 THEN Return(self, <<>>)
         ELSE IF self.config.verbosity < 3 /\ lvl = DEBUG THEN Return(self, <<>>)
         ELSE LET ts == IF self.config.timestamps THEN now ELSE <<>>
                  color == get(self.styles, event_dot \o lvl, self.styles[r_info])
                  pre == IF ts # <<>>
                         THEN <<"[">> \o ts \o <<"]", " ">> \o ljust(lvl, LevelWidth) \o <<" ">>
                         ELSE ljust(lvl, LevelWidth) \o <<" ">>
              IN  Return(self, <<ConsoleCall("print", "event", [prefix |-> color],
                                             pre \o message, "")>>)

(* ---------- Data ---------- *)

\* ConsoleUtils.table (headers, rows, title, expand and table_box are handed on)
table(self, header_style) ==
    IF self.config.verbosity = 0 THEN Return(self, <<>>)
    ELSE LET hs == IF truthy(header_style) THEN header_style
                   ELSE self.styles[r_table_header]
         IN  console_print(self, <<>>,
                           ConsoleCall("print", "table", [header |-> hs], <<>>, "ROUNDED"),
                           {hs})

\* ConsoleUtils.dictionary: a grid with a key and a value column in a Panel.
dictionary(self) ==
    IF self.config.verbosity = 0 THEN Return(self, <<>>)
    ELSE console_print(self, <<>>,
                       ConsoleCall("print", "dictionary",
                                   [key |-> self.styles[r_key], value |-> self.styles[r_value],
                                    border |-> self.styles[r_panel]],
                                   <<>>, "ROUNDED"),
                       {self.styles[r_key], self.styles[r_value], self.styles[r_panel]})

\* ConsoleUtils.json
json(self) ==
    IF self.config.verbosity = 0 THEN Return(self, <<>>)
    ELSE console_print(self, <<>>,
                       ConsoleCall("print", "json", [border |-> self.styles[r_panel]],
                                   <<>>, "ROUNDED"),
                       {self.styles[r_panel]})

\* ConsoleUtils.tree
tree(self, title) ==
    IF self.config.verbosity = 0 THEN Return(self, <<>>)
    ELSE Return(self, <<ConsoleCall("print", "tree", [root |-> self.styles[r_info]], title, "")>>)

\* ConsoleUtils.key_value: f"[key style]{key}[/]: [value style]{display}[/]"
key_value(self, key, value, secret, keep, mask) ==
    IF self.config.verbosity = 0 THEN Return(self, <<>>)
    ELSE LET display == IF secret THEN mask_secret(value, keep, mask) ELSE value
         IN  Return(self,
                    <<ConsoleCall("print", "key_value",
                                  [key |-> self.styles[r_key], value |-> self.styles[r_value]],
                                  key \o <<":", " ">> \o display, "")>>)

(* ---------- Arguments drawn ---------- *)

\* How far outside 0..3 the verbosity arguments drawn go.
MaxOver == 1

\* The largest int size drawn for spacer.
MaxSpacer == 3

\* A role no preset defines.
r_custom == <<"c", "u", "s", "t", "o", "m", ".", "r", "o", "l", "e">>

ThemeArgs ==
    {<<"d", "a", "r", "k">>,
     <<"D", "A", "R", "K">>,
     <<"L", "i", "g", "h", "t">>,
     <<"m", "o", "n", "o">>,
     <<"n", "e", "o", "n">>}

\* custom_styles: None or {} (<<>>), overrides of roles the methods read, with a role
\* no preset defines, and a descriptor rich cannot parse.
CustomStyleArgs ==
    {<<>>,
     r_rule :> "red" @@ r_panel :> "bold red" @@ r_header :> "bold yellow"
        @@ r_table_header :> "bold blue" @@ r_custom :> "green" @@ r_event_DEBUG :> "magenta",
     r_panel :> "not a style"}

VerbosityArgs == (0 - MaxOver)..(3 + MaxOver)

\* The levels of the spec's scenarios beside the range drawn.
LevelArgs == VerbosityArgs \cup {-5, 99}

\* A per-call style argument: absent, empty, given.
StyleArgs == {None, "", "bold red"}

Messages == {<<"x">>}

Labels == {<<>>, <<"L">>}

EventLevels ==
    {<<"D", "E", "B", "U", "G">>,
     <<"d", "e", "b", "u", "g">>,
     <<"D", "e", "b", "u", "g">>,
     <<"I", "N", "F", "O">>,
     <<"i", "n", "f", "o">>,
     <<"S", "U", "C", "C", "E", "S", "S">>,
     <<"W", "a", "r", "n", "i", "n", "g">>,
     <<"e", "r", "r", "o", "r">>,
     <<"C", "r", "i", "t", "i", "c", "a", "l">>}

\* What the clock may read when an event is printed.
Clock == {<<"2", "0", "2", "6", "-", "0", "1", "-", "0", "1", " ", "0", "0", ":", "0", "0", ":", "0", "0">>}

SizeArgs ==
    {[tag |-> "int", n |-> n] : n \in 0..MaxSpacer}
    \cup {[tag |-> "str", s |-> s] :
            s \in {k_small, k_m, k_large, <<"2">>, <<"h", "u", "g", "e">>}}

PanelBoxArgs ==
    {[tag |-> "None"],
     [tag |-> "str", s |-> <<"d", "o", "u", "b", "l", "e">>]}

Secrets == {<<"p", "w">>, <<"p", "@", "s", "s">>}

(* ---------- The facade as a state machine ---------- *)

Init ==
    /\ PRESET_THEMES = PRESET_THEMES_0
    /\ cu = Unset
    /\ pc = "new"
    /\ op = [name |-> "none", args |-> <<>>]
    /\ out = <<>>
    /\ exc = NoExc
    /\ ret = <<>>

\* A call of a method on the instance, with what it did.
Apply(name, args, result) ==
    \E r \in {result} :
    /\ cu' = r.self
    /\ out' = r.out
    /\ exc' = r.exc
    /\ ret' = r.ret
    /\ op' = [name |-> name, args |-> args]
    /\ PRESET_THEMES' = r.presets
    /\ UNCHANGED pc

\* ConsoleUtils(...): enable_tracebacks, which only installs rich's traceback
\* hook, is left at its default.
Construct ==
    /\ pc = "new"
    /\ \E theme \in ThemeArgs, emoji \in BOOLEAN, timestamps \in BOOLEAN,
          verbosity \in VerbosityArgs, custom_styles \in CustomStyleArgs :
        \E r \in {ConsoleUtils(theme, emoji, timestamps, verbosity, TRUE, custom_styles)} :
        /\ cu' = r.self
        /\ out' = r.out
        /\ exc' = r.exc
        /\ ret' = r.ret
        /\ op' = [name |-> "__init__",
                  args |-> [theme |-> theme, verbosity |-> verbosity,
                            custom_styles |-> custom_styles]]
        /\ pc' = IF r.exc = NoExc THEN "ready" ELSE "new"
        /\ PRESET_THEMES' = r.presets

SetTheme ==
    /\ pc = "ready"
    /\ \E theme \in ThemeArgs, custom_styles \in CustomStyleArgs :
        Apply("set_theme", [theme |-> theme, custom_styles |-> custom_styles],
              set_theme(cu, theme, custom_styles))

SetVerbosity ==
    /\ pc = "ready"
    /\ \E level \in LevelArgs :
        Apply("set_verbosity", [level |-> level], set_verbosity(cu, level))

Header ==
    /\ pc = "ready"
    /\ \E msg \in Messages, style \in StyleArgs :
        Apply("header", [style |-> style], header(cu, msg, style))

\* rule(label, line_style=...): label_style is left at its default.
Rule ==
    /\ pc = "ready"
    /\ \E label \in Labels, line_style \in StyleArgs :
        Apply("rule", [label |-> label, style |-> line_style],
              rule(cu, label, None, line_style))

Spacer ==
    /\ pc = "ready"
    /\ \E size \in SizeArgs : Apply("spacer", [size |-> size], spacer(cu, size))

Panel ==
    /\ pc = "ready"
    /\ \E msg \in Messages, style \in {None, "blue on white"},
          border_style \in StyleArgs, box_like \in PanelBoxArgs :
        Apply("panel", [style |-> border_style, interior |-> style, box |-> box_like],
              panel(cu, msg, style, border_style, box_like))

Markdown ==
    /\ pc = "ready"
    /\ \E text \in Messages : Apply("markdown", <<>>, markdown(cu, text))

Code ==
    /\ pc = "ready"
    /\ \E text \in Messages : Apply("code", <<>>, code(cu, text))

Success ==
    /\ pc = "ready"
    /\ \E msg \in Messages : Apply("success", <<>>, success(cu, msg))

Info ==
    /\ pc = "ready"
    /\ \E msg \in Messages : Apply("info", <<>>, info(cu, msg))

Warning ==
    /\ pc = "ready"
    /\ \E msg \in Messages : Apply("warning", <<>>, warning(cu, msg))

Error ==
    /\ pc = "ready"
    /\ \E msg \in Messages : Apply("error", <<>>, error(cu, msg))

Event ==
    /\ pc = "ready"
    /\ \E msg \in Messages, level \in EventLevels, now \in Clock :
        Apply("event", [level |-> level, message |-> msg, now |-> now],
              event(cu, msg, level, now))

Table ==
    /\ pc = "ready"
    /\ \E header_style \in StyleArgs :
        Apply("table", [style |-> header_style], table(cu, header_style))

Dictionary ==
    /\ pc = "ready"
    /\ Apply("dictionary", <<>>, dictionary(cu))

Json ==
    /\ pc = "ready"
    /\ Apply("json", <<>>, json(cu))

Tree ==
    /\ pc = "ready"
    /\ \E title \in Messages : Apply("tree", <<>>, tree(cu, title))

KeyValue ==
    /\ pc = "ready"
    /\ \E key \in Messages, value \in Secrets, secret \in BOOLEAN :
        Apply("key_value", [value |-> value, secret |-> secret],
              key_value(cu, key, value, secret, 3, <<"*">>))

MaskSecret ==
    /\ pc = "ready"
    /\ \E secret \in Secrets, keep \in {0, 3} :
        Apply("mask_secret", [secret |-> secret, keep |-> keep, mask |-> <<"*">>],
              ReturnValue(cu, mask_secret(secret, keep, <<"*">>)))

Next ==
    \/ Construct
    \/ SetTheme
    \/ SetVerbosity
    \/ Header
    \/ Rule
    \/ Spacer
    \/ Panel
    \/ Markdown
    \/ Code
    \/ Success
    \/ Info
    \/ Warning
    \/ Error
    \/ Event
    \/ Table
    \/ Dictionary
    \/ Json
    \/ Tree
    \/ KeyValue
    \/ MaskSecret

Spec == Init /\ [][Next]_vars

(* ---------- The helper functions on their own ---------- *)

\* The longest secret drawn, and the largest keep.
MaxLen == 3
MaxKeep == 4

SecretChars == {"a", "b", "*"}

\* Every str over SecretChars of at most MaxLen characters.
SecretArgs == UNION {[1..n -> SecretChars] : n \in 0..MaxLen}

\* The secret of the spec's scenario.
ScenarioSecret ==
    <<"S", "u", "p", "e", "r", "S", "e", "c", "r", "e", "t", "P", "@", "$", "$">>

MaskArgs ==
    {[secret |-> s, keep |-> k, mask |-> m] :
        s \in SecretArgs \cup {ScenarioSecret}, k \in -1..MaxKeep, m \in {<<"*">>, <<"#">>}}

\* The names drawn for _resolve_box: every key of its mapping in lower, upper and
\* capitalised letters, with hyphens and blanks for underscores and with blanks
\* around it, and names that are no key.
BoxNameArgs ==
    {<<"r", "o", "u", "n", "d", "e", "d">>,
     <<"R", "O", "U", "N", "D", "E", "D">>,
     <<"R", "o", "u", "n", "d", "e", "d">>,
     <<" ", "r", "o", "u", "n", "d", "e", "d", " ">>,
     <<"r", "o", "u", "n", "d">>,
     <<"R", "O", "U", "N", "D">>,
     <<"R", "o", "u", "n", "d">>,
     <<" ", "r", "o", "u", "n", "d", " ">>,
     <<"s", "q", "u", "a", "r", "e">>,
     <<"S", "Q", "U", "A", "R", "E">>,
     <<"S", "q", "u", "a", "r", "e">>,
     <<" ", "s", "q", "u", "a", "r", "e", " ">>,
     <<"h", "e", "a", "v", "y">>,
     <<"H", "E", "A", "V", "Y">>,
     <<"H", "e", "a", "v", "y">>,
     <<" ", "h", "e", "a", "v", "y", " ">>,
     <<"t", "h", "i", "c", "k">>,
     <<"T", "H", "I", "C", "K">>,
     <<"T", "h", "i", "c", "k">>,
     <<" ", "t", "h", "i", "c", "k", " ">>,
     <<"d", "o", "u", "b", "l", "e">>,
     <<"D", "O", "U", "B", "L", "E">>,
     <<"D", "o", "u", "b", "l", "e">>,
     <<" ", "d", "o", "u", "b", "l", "e", " ">>,
     <<"a", "s", "c", "i", "i">>,
     <<"A", "S", "C", "I", "I">>,
     <<"A", "s", "c", "i", "i">>,
     <<" ", "a", "s", "c", "i", "i", " ">>,
     <<"m", "i", "n", "i", "m", "a", "l">>,
     <<"M", "I", "N", "I", "M", "A", "L">>,
     <<"M", "i", "n", "i", "m", "a", "l">>,
     <<" ", "m", "i", "n", "i", "m", "a", "l", " ">>,
     <<"m", "i", "n", "i", "m", "a", "l", "_", "h", "e", "a", "v", "y">>,
     <<"M", "I", "N", "I", "M", "A", "L", "_", "H", "E", "A", "V", "Y">>,
     <<"M", "i", "n", "i", "m", "a", "l", "_", "H", "e", "a", "v", "y">>,
     <<"m", "i", "n", "i", "m", "a", "l", "-", "h", "e", "a", "v", "y">>,
     <<"M", "i", "n", "i", "m", "a", "l", " ", "H", "e", "a", "v", "y">>,
     <<"M", "I", "N", "I", "M", "A", "L", "-", "H", "E", "A", "V", "Y">>,
     <<"m", "i", "n", "i", "m", "a", "l", "_", "d", "o", "u", "b", "l", "e">>,
     <<"M", "I", "N", "I", "M", "A", "L", "_", "D", "O", "U", "B", "L", "E">>,
     <<"M", "i", "n", "i", "m", "a", "l", "_", "D", "o", "u", "b", "l", "e">>,
     <<"m", "i", "n", "i", "m", "a", "l", "-", "d", "o", "u", "b", "l", "e">>,
     <<"M", "i", "n", "i", "m", "a", "l", " ", "D", "o", "u", "b", "l", "e">>,
     <<"M", "I", "N", "I", "M", "A", "L", "-", "D", "O", "U", "B", "L", "E">>,
     <<"s", "i", "m", "p", "l", "e">>,
     <<"S", "I", "M", "P", "L", "E">>,
     <<"S", "i", "m", "p", "l", "e">>,
     <<" ", "s", "i", "m", "p", "l", "e", " ">>,
     <<"s", "i", "m", "p", "l", "e", "_", "h", "e", "a", "v", "y">>,
     <<"S", "I", "M", "P", "L", "E", "_", "H", "E", "A", "V", "Y">>,
     <<"S", "i", "m", "p", "l", "e", "_", "H", "e", "a", "v", "y">>,
     <<"s", "i", "m", "p", "l", "e", "-", "h", "e", "a", "v", "y">>,
     <<"S", "i", "m", "p", "l", "e", " ", "H", "e", "a", "v", "y">>,
     <<"S", "I", "M", "P", "L", "E", "-", "H", "E", "A", "V", "Y">>,
     <<"s", "i", "m", "p", "l", "e", "_", "h", "e", "a", "d">>,
     <<"S", "I", "M", "P", "L", "E", "_", "H", "E", "A", "D">>,
     <<"S", "i", "m", "p", "l", "e", "_", "H", "e", "a", "d">>,
     <<"s", "i", "m", "p", "l", "e", "-", "h", "e", "a", "d">>,
     <<"S", "i", "m", "p", "l", "e", " ", "H", "e", "a", "d">>,
     <<"S", "I", "M", "P", "L", "E", "-", "H", "E", "A", "D">>,
     <<"n", "o", "n", "e", "x", "i", "s", "t", "e", "n", "t">>,
     <<"D", "o", "u", "b", "l", "e", "-", "B", "o", "x">>,
     <<"d", "o", "u", "b", "l", "e", " ", "b", "o", "x">>,
     <<"D", "O", "U", "B", "L", "E", "_", "B", "O", "X">>,
     <<"d", "o", "u", "b", "l", "e", "b", "o", "x">>,
     <<>>,
     <<"h", "e", "a", "v", "y", " ", "h", "e", "a", "d">>,
     <<"m", "i", "n", "i", "m", "a", "l", "_", "h", "e", "a", "v", "y", "_", "h", "e", "a", "d">>,
     <<"d", " ", "o", "u", "b", "l", "e">>,
     <<"n", "o", "n", "e">>,
     <<"r", "o", "u", "n", "d", "e", "d", "!">>,
     <<"-", "d", "o", "u", "b", "l", "e">>}

BoxConstants ==
    {"ROUNDED", "SQUARE", "HEAVY", "DOUBLE", "ASCII", "MINIMAL", "MINIMAL_HEAVY_HEAD",
     "MINIMAL_DOUBLE_HEAD", "SIMPLE", "SIMPLE_HEAVY", "SIMPLE_HEAD"}

BoxArgs ==
    {[tag |-> "None"]}
    \cup {[tag |-> "Box", box |-> b] : b \in BoxConstants}
    \cup {[tag |-> "str", s |-> s] : s \in BoxNameArgs}

\* A helper function about to be called with arguments a: no instance is involved.
InitCall(name, a) ==
    /\ PRESET_THEMES = PRESET_THEMES_0
    /\ cu = Unset
    /\ pc = "call"
    /\ op = [name |-> name, args |-> a]
    /\ out = <<>>
    /\ exc = NoExc
    /\ ret = <<>>

InitMask == \E a \in MaskArgs : InitCall("mask_secret", a)

CallMaskSecret ==
    /\ pc = "call"
    /\ op.name = "mask_secret"
    /\ ret' = <<mask_secret(op.args.secret, op.args.keep, op.args.mask)>>
    /\ pc' = "done"
    /\ UNCHANGED <<PRESET_THEMES, cu, op, out, exc>>

NextMask == CallMaskSecret

SpecMask == InitMask /\ [][NextMask]_vars

InitBox == \E a \in BoxArgs : InitCall("_resolve_box", a)

CallResolveBox ==
    /\ pc = "call"
    /\ op.name = "_resolve_box"
    /\ ret' = <<resolve_box(op.args)>>
    /\ pc' = "done"
    /\ UNCHANGED <<PRESET_THEMES, cu, op, out, exc>>

NextBox == CallResolveBox

SpecBox == InitBox /\ [][NextBox]_vars

(* ---------- Properties ---------- *)

\* C8: mask_secret(s, keep, mask) with a one-character mask never fails and
\* returns a str as long as s: s itself when keep > 0 and len(s) <= keep; the
\* first keep characters of s followed by the mask character in every other
\* position when keep > 0 and len(s) > keep; the mask character in every
\* position when keep <= 0.
MaskSecretContract ==
    (pc = "done" /\ op.name = "mask_secret") =>
        LET s == op.args.secret
            k == op.args.keep
            m == op.args.mask[1]
            r == ret[1]
        IN  /\ exc = NoExc
            /\ Len(ret) = 1
            /\ Len(r) = Len(s)
            /\ (k > 0 /\ Len(s) <= k) => r = s
            /\ (k > 0 /\ Len(s) > k) =>
                   \A i \in 1..Len(s) : r[i] = IF i <= k THEN s[i] ELSE m
            /\ k <= 0 => \A i \in 1..Len(s) : r[i] = m

\* The scenario of C8: mask_secret("SuperSecretP@$$", keep=3) has returned
\* "Sup************".
MaskSecretScenario ==
    /\ pc = "done"
    /\ op.name = "mask_secret"
    /\ op.args = [secret |-> ScenarioSecret, keep |-> 3, mask |-> <<"*">>]
    /\ ret = <<
               <<"S", "u", "p", "*", "*", "*", "*", "*", "*", "*", "*", "*", "*", "*", "*">>>>

\* What _resolve_box returns for the names drawn that are names of a shape, by shape.
ShapeNames ==
       "SQUARE" :>
        {<<"s", "q", "u", "a", "r", "e">>,
         <<"S", "Q", "U", "A", "R", "E">>,
         <<"S", "q", "u", "a", "r", "e">>,
         <<" ", "s", "q", "u", "a", "r", "e", " ">>}
    @@ "HEAVY" :>
        {<<"h", "e", "a", "v", "y">>,
         <<"H", "E", "A", "V", "Y">>,
         <<"H", "e", "a", "v", "y">>,
         <<" ", "h", "e", "a", "v", "y", " ">>,
         <<"t", "h", "i", "c", "k">>,
         <<"T", "H", "I", "C", "K">>,
         <<"T", "h", "i", "c", "k">>,
         <<" ", "t", "h", "i", "c", "k", " ">>}
    @@ "DOUBLE" :>
        {<<"d", "o", "u", "b", "l", "e">>,
         <<"D", "O", "U", "B", "L", "E">>,
         <<"D", "o", "u", "b", "l", "e">>,
         <<" ", "d", "o", "u", "b", "l", "e", " ">>}
    @@ "ASCII" :>
        {<<"a", "s", "c", "i", "i">>,
         <<"A", "S", "C", "I", "I">>,
         <<"A", "s", "c", "i", "i">>,
         <<" ", "a", "s", "c", "i", "i", " ">>}
    @@ "MINIMAL" :>
        {<<"m", "i", "n", "i", "m", "a", "l">>,
         <<"M", "I", "N", "I", "M", "A", "L">>,
         <<"M", "i", "n", "i", "m", "a", "l">>,
         <<" ", "m", "i", "n", "i", "m", "a", "l", " ">>}
    @@ "MINIMAL_HEAVY_HEAD" :>
        {<<"m", "i", "n", "i", "m", "a", "l", "_", "h", "e", "a", "v", "y">>,
         <<"M", "I", "N", "I", "M", "A", "L", "_", "H", "E", "A", "V", "Y">>,
         <<"M", "i", "n", "i", "m", "a", "l", "_", "H", "e", "a", "v", "y">>,
         <<"m", "i", "n", "i", "m", "a", "l", "-", "h", "e", "a", "v", "y">>,
         <<"M", "i", "n", "i", "m", "a", "l", " ", "H", "e", "a", "v", "y">>,
         <<"M", "I", "N", "I", "M", "A", "L", "-", "H", "E", "A", "V", "Y">>}
    @@ "MINIMAL_DOUBLE_HEAD" :>
        {<<"m", "i", "n", "i", "m", "a", "l", "_", "d", "o", "u", "b", "l", "e">>,
         <<"M", "I", "N", "I", "M", "A", "L", "_", "D", "O", "U", "B", "L", "E">>,
         <<"M", "i", "n", "i", "m", "a", "l", "_", "D", "o", "u", "b", "l", "e">>,
         <<"m", "i", "n", "i", "m", "a", "l", "-", "d", "o", "u", "b", "l", "e">>,
         <<"M", "i", "n", "i", "m", "a", "l", " ", "D", "o", "u", "b", "l", "e">>,
         <<"M", "I", "N", "I", "M", "A", "L", "-", "D", "O", "U", "B", "L", "E">>}
    @@ "SIMPLE" :>
        {<<"s", "i", "m", "p", "l", "e">>,
         <<"S", "I", "M", "P", "L", "E">>,
         <<"S", "i", "m", "p", "l", "e">>,
         <<" ", "s", "i", "m", "p", "l", "e", " ">>}
    @@ "SIMPLE_HEAVY" :>
        {<<"s", "i", "m", "p", "l", "e", "_", "h", "e", "a", "v", "y">>,
         <<"S", "I", "M", "P", "L", "E", "_", "H", "E", "A", "V", "Y">>,
         <<"S", "i", "m", "p", "l", "e", "_", "H", "e", "a", "v", "y">>,
         <<"s", "i", "m", "p", "l", "e", "-", "h", "e", "a", "v", "y">>,
         <<"S", "i", "m", "p", "l", "e", " ", "H", "e", "a", "v", "y">>,
         <<"S", "I", "M", "P", "L", "E", "-", "H", "E", "A", "V", "Y">>}
    @@ "SIMPLE_HEAD" :>
        {<<"s", "i", "m", "p", "l", "e", "_", "h", "e", "a", "d">>,
         <<"S", "I", "M", "P", "L", "E", "_", "H", "E", "A", "D">>,
         <<"S", "i", "m", "p", "l", "e", "_", "H", "e", "a", "d">>,
         <<"s", "i", "m", "p", "l", "e", "-", "h", "e", "a", "d">>,
         <<"S", "i", "m", "p", "l", "e", " ", "H", "e", "a", "d">>,
         <<"S", "I", "M", "P", "L", "E", "-", "H", "E", "A", "D">>}
    @@ "ROUNDED" :>
        {<<"r", "o", "u", "n", "d", "e", "d">>,
         <<"R", "O", "U", "N", "D", "E", "D">>,
         <<"R", "o", "u", "n", "d", "e", "d">>,
         <<" ", "r", "o", "u", "n", "d", "e", "d", " ">>,
         <<"r", "o", "u", "n", "d">>,
         <<"R", "O", "U", "N", "D">>,
         <<"R", "o", "u", "n", "d">>,
         <<" ", "r", "o", "u", "n", "d", " ">>}
\* C10 as amended: _resolve_box never fails; None resolves to rounded, a Box to
\* itself, and a str to the shape it names once blanks around it are dropped,
\* letters are upper-cased and hyphens and blanks are read as underscores, or to
\* rounded when that is no name of a shape, as for "Double-Box" and "nonexistent".
ResolveBoxContract ==
    (pc = "done" /\ op.name = "_resolve_box") =>
        /\ exc = NoExc
        /\ Len(ret) = 1
        /\ op.args.tag = "None" => ret[1] = "ROUNDED"
        /\ op.args.tag = "Box" => ret[1] = op.args.box
        /\ op.args.tag = "str" =>
            /\ \A shape \in DOMAIN ShapeNames :
                   op.args.s \in ShapeNames[shape] => ret[1] = shape
            /\ (\A shape \in DOMAIN ShapeNames : op.args.s \notin ShapeNames[shape])
                   => ret[1] = "ROUNDED"

\* _resolve_box("Double-Box") has returned rounded.
ResolveBoxDoubleBoxRounded ==
    /\ pc = "done"
    /\ op.name = "_resolve_box"
    /\ op.args = [tag |-> "str", s |-> 
            <<"D", "o", "u", "b", "l", "e", "-", "B", "o", "x">>]
    /\ ret = <<"ROUNDED">>

\* C10 as the spec states it: never a failure, "Double-Box" resolves to the
\* double shape, None and "nonexistent" resolve to rounded.
ResolveBoxAsSpecified ==
    (pc = "done" /\ op.name = "_resolve_box") =>
        /\ exc = NoExc
        /\ Len(ret) = 1
        /\ op.args.tag = "None" => ret[1] = "ROUNDED"
        /\ op.args = [tag |-> "str", s |-> 
            <<"n", "o", "n", "e", "x", "i", "s", "t", "e", "n", "t">>] => ret[1] = "ROUNDED"
        /\ op.args = [tag |-> "str", s |-> 
            <<"D", "o", "u", "b", "l", "e", "-", "B", "o", "x">>] => ret[1] = "DOUBLE"

(* ---------- Properties of the facade ---------- *)

\* The rendering operations.
RenderOps ==
    {"success", "info", "warning", "error", "event", "header", "rule", "spacer",
     "panel", "markdown", "code", "table", "dictionary", "json", "tree", "key_value"}

\* C1: while the verbosity is 0, a rendering operation makes no call on the
\* Console (rendering operations leave the verbosity as it was, so the level
\* after the call is the level it ran at).
SilentAtVerbosityZero ==
    (pc = "ready" /\ op.name \in RenderOps /\ cu.config.verbosity = 0) => out = <<>>

\* The spellings drawn of each event level, and of DEBUG.
DebugSpellings ==
    {<<"D", "E", "B", "U", "G">>,
     <<"d", "e", "b", "u", "g">>,
     <<"D", "e", "b", "u", "g">>}
OtherLevelSpellings ==
    {<<"I", "N", "F", "O">>,
     <<"i", "n", "f", "o">>,
     <<"S", "U", "C", "C", "E", "S", "S">>,
     <<"W", "a", "r", "n", "i", "n", "g">>,
     <<"e", "r", "r", "o", "r">>}

\* The sizes drawn that ask spacer for at least one line.
AsksForLines(size) ==
    \/ size.tag = "int" /\ size.n >= 1
    \/ size.tag = "str" /\ size.s \in {k_small, k_m, k_large}

\* C2: at every verbosity v in 0..3 the output decision is the gate table: an
\* operation other than event produces output iff v >= 1; event(msg, L), for L
\* one of the five levels in any letter case, produces output iff v = 3, or
\* v = 2 and L is not DEBUG.
GateTable ==
    (pc = "ready" /\ op.name \in RenderOps /\ cu.config.verbosity \in 0..3) =>
        LET v == cu.config.verbosity IN
        /\ (op.name = "event" /\ op.args.level \in DebugSpellings) =>
               (out # <<>> <=> v = 3)
        /\ (op.name = "event" /\ op.args.level \in OtherLevelSpellings) =>
               (out # <<>> <=> v >= 2)
        /\ (op.name = "spacer" /\ AsksForLines(op.args.size)) =>
               (out # <<>> <=> v >= 1)
        /\ op.name \notin {"event", "spacer"} => (out # <<>> <=> v >= 1)

\* C3: the verbosity an instance holds is in 0..3.
VerbosityInRange == pc = "ready" => cu.config.verbosity \in 0..3

\* The spellings drawn of each preset's name.
PresetSpellings ==
       n_dark :> {n_dark, <<"D", "A", "R", "K">>}
    @@ n_light :> {<<"L", "i", "g", "h", "t">>}
    @@ n_mono :> {n_mono}

NamesPreset(theme) == \E p \in DOMAIN PresetSpellings : theme \in PresetSpellings[p]

PresetNamed(theme) == CHOOSE p \in DOMAIN PresetSpellings : theme \in PresetSpellings[p]

\* One step of C4, from the state before a call to the state after it.
UnknownThemeStep ==
    op'.name \in {"set_theme", "__init__"} =>
        IF NamesPreset(op'.args.theme)
        THEN /\ exc'.msg # "Unknown theme"
             /\ exc' = NoExc => cu'.config.theme = PresetNamed(op'.args.theme)
        ELSE /\ exc'.type = "ValueError"
             /\ exc'.msg = "Unknown theme"
             /\ exc'.theme = op'.args.theme
             /\ exc'.choices = <<n_dark, n_light, n_mono>>
             /\ cu' = cu
             /\ pc' = pc

\* C4: set_theme and construction with a name that matches no preset in any
\* letter case raise the ValueError that lists dark, light, mono, and leave the
\* instance (theme name, style mapping, verbosity) as it was, or unconstructed;
\* a name that matches in any letter case is not rejected and is stored as the
\* preset's identifier.
UnknownThemeRejected == [][UnknownThemeStep]_vars

\* set_theme("neon") has raised on an instance whose theme is still dark.
UnknownThemeRaised ==
    /\ pc = "ready"
    /\ op.name = "set_theme"
    /\ ~NamesPreset(op.args.theme)
    /\ exc.msg = "Unknown theme"
    /\ cu.config.theme = n_dark

\* One step of C5.
SetThemeStep ==
    op'.name = "set_theme" =>
        IF exc' = NoExc
        THEN /\ cu'.config.theme = PresetNamed(op'.args.theme)
             /\ cu'.console.theme = cu'.styles
        ELSE cu' = cu

\* C5: set_theme is fully applied (theme name, style mapping and the Console's
\* theme replaced together) or, when it raises at any step, leaves the theme
\* name, the style mapping and the Console as they were.
SetThemeAtomic == [][SetThemeStep]_vars

\* The clamp of C6, case by case.
Clamped(level) == IF level > 3 THEN 3 ELSE IF level < 0 THEN 0 ELSE level

\* C6: set_verbosity(level) never raises and leaves the verbosity at
\* max(0, min(3, level)): 3 above 3, 0 below 0, level itself in 0..3.
SetVerbosityClamps ==
    (pc = "ready" /\ op.name = "set_verbosity") =>
        /\ exc = NoExc
        /\ cu.config.verbosity = Clamped(op.args.level)

\* set_verbosity(99) has left the verbosity at 3.
SetVerbosity99 ==
    pc = "ready" /\ op.name = "set_verbosity" /\ op.args.level = 99 /\ cu.config.verbosity = 3

\* C7: after a construction or set_theme(p, overrides) that returned, the style
\* mapping holds overrides[k] for every role k of overrides and preset p's
\* descriptor for every other role, and no other role, whatever the mapping was
\* before; _PRESET_THEMES is as the module defines it.
MergedMapping ==
    /\ PRESET_THEMES = PRESET_THEMES_0
    /\ (op.name \in {"set_theme", "__init__"} /\ exc = NoExc) =>
        LET p == PRESET_THEMES_0[PresetNamed(op.args.theme)]
            o == op.args.custom_styles
        IN  /\ DOMAIN cu.styles = DOMAIN p \cup DOMAIN o
            /\ \A k \in DOMAIN o : cu.styles[k] = o[k]
            /\ \A k \in DOMAIN p \ DOMAIN o : cu.styles[k] = p[k]

\* set_theme with overrides has returned: the mapping holds the overrides, the
\* role no preset defines among them, and the preset's descriptor elsewhere.
SetThemeWithOverrides ==
    /\ pc = "ready"
    /\ op.name = "set_theme"
    /\ exc = NoExc
    /\ r_custom \in DOMAIN op.args.custom_styles
    /\ cu.styles[r_custom] = "green"
    /\ cu.styles[r_panel] = "bold red"
    /\ cu.styles[r_info] = PRESET_THEMES_0[cu.config.theme][r_info]

\* The operations that take a per-call style, with the role each reads.
StyleRole ==
    "header" :> r_header @@ "rule" :> r_rule @@ "panel" :> r_panel @@ "table" :> r_table_header

\* The style the last such operation handed to the Console.
HandedStyle ==
    CASE op.name = "header" -> out[2].style.title
      [] op.name = "rule" -> out[1].style.line
      [] op.name = "panel" -> out[1].style.border
      [] op.name = "table" -> out[1].style.header

\* C9: header, rule, panel and table hand the Console the per-call style when it
\* is given and non-empty, and the active mapping's descriptor for their role
\* (header, rule, panel, table.header) when it is absent.
PerCallStyle ==
    (pc = "ready" /\ op.name \in DOMAIN StyleRole /\ out # <<>>) =>
        /\ op.args.style \notin {None, ""} => HandedStyle = op.args.style
        /\ op.args.style = None => HandedStyle = cu.styles[StyleRole[op.name]]


\* Each level drawn, upper-cased.
LevelUpper ==
       <<"D", "E", "B", "U", "G">> :>
        <<"D", "E", "B", "U", "G">>
    @@ <<"d", "e", "b", "u", "g">> :>
        <<"D", "E", "B", "U", "G">>
    @@ <<"D", "e", "b", "u", "g">> :>
        <<"D", "E", "B", "U", "G">>
    @@ <<"I", "N", "F", "O">> :>
        <<"I", "N", "F", "O">>
    @@ <<"i", "n", "f", "o">> :>
        <<"I", "N", "F", "O">>
    @@ <<"S", "U", "C", "C", "E", "S", "S">> :>
        <<"S", "U", "C", "C", "E", "S", "S">>
    @@ <<"W", "a", "r", "n", "i", "n", "g">> :>
        <<"W", "A", "R", "N", "I", "N", "G">>
    @@ <<"e", "r", "r", "o", "r">> :>
        <<"E", "R", "R", "O", "R">>
    @@ <<"C", "r", "i", "t", "i", "c", "a", "l">> :>
        <<"C", "R", "I", "T", "I", "C", "A", "L">>

\* A level field of at least seven characters: u, then blanks up to seven.
PaddedField(u) == IF Len(u) >= 7 THEN u ELSE u \o [i \in 1..(7 - Len(u)) |-> " "]

\* A level field of exactly seven characters: u padded or cut.
ExactField(u) == [i \in 1..7 |-> IF i <= Len(u) THEN u[i] ELSE " "]

\* The event line with the given level field: the bracketed time and a blank
\* when timestamps are on, the field, a blank, the message.
EventLine(field) ==
    (IF cu.config.timestamps THEN <<"[">> \o op.args.now \o <<"]", " ">> ELSE <<>>)
    \o field \o <<" ">> \o op.args.message

\* C11 as amended: an event that is rendered is one line, "[<timestamp>] <LEVEL>
\* <message>" when timestamps are on and "<LEVEL> <message>" when they are off,
\* where LEVEL is the upper-cased level padded with blanks to seven characters
\* and never cut: a level of more than seven characters is kept whole.
EventLineFormat ==
    (pc = "ready" /\ op.name = "event" /\ out # <<>>) =>
        /\ Len(out) = 1
        /\ out[1].text = EventLine(PaddedField(LevelUpper[op.args.level]))

\* event("x", "Critical") has been rendered with timestamps on: the level field
\* holds the eight characters of CRITICAL.
EventLongLevelRendered ==
    /\ pc = "ready"
    /\ op.name = "event"
    /\ out # <<>>
    /\ cu.config.timestamps
    /\ out[1].text =
        <<"[", "2", "0", "2", "6", "-", "0", "1", "-", "0", "1", " ", "0", "0", ":", "0", "0", ":", "0", "0", "]", " ", "C", "R", "I", "T", "I", "C", "A", "L", " ", "x">>

\* C11 as the spec states it: the level field of every rendered event line is
\* the upper-cased level padded or truncated to exactly seven characters.
EventLineExactWidth ==
    (pc = "ready" /\ op.name = "event" /\ out # <<>>) =>
        /\ Len(out) = 1
        /\ out[1].text = EventLine(ExactField(LevelUpper[op.args.level]))

\* The role event.<LEVEL> of each level drawn.
LevelRole ==
       <<"D", "E", "B", "U", "G">> :>
        <<"e", "v", "e", "n", "t", ".", "D", "E", "B", "U", "G">>
    @@ <<"d", "e", "b", "u", "g">> :>
        <<"e", "v", "e", "n", "t", ".", "D", "E", "B", "U", "G">>
    @@ <<"D", "e", "b", "u", "g">> :>
        <<"e", "v", "e", "n", "t", ".", "D", "E", "B", "U", "G">>
    @@ <<"I", "N", "F", "O">> :>
        <<"e", "v", "e", "n", "t", ".", "I", "N", "F", "O">>
    @@ <<"i", "n", "f", "o">> :>
        <<"e", "v", "e", "n", "t", ".", "I", "N", "F", "O">>
    @@ <<"S", "U", "C", "C", "E", "S", "S">> :>
        <<"e", "v", "e", "n", "t", ".", "S", "U", "C", "C", "E", "S", "S">>
    @@ <<"W", "a", "r", "n", "i", "n", "g">> :>
        <<"e", "v", "e", "n", "t", ".", "W", "A", "R", "N", "I", "N", "G">>
    @@ <<"e", "r", "r", "o", "r">> :>
        <<"e", "v", "e", "n", "t", ".", "E", "R", "R", "O", "R">>
    @@ <<"C", "r", "i", "t", "i", "c", "a", "l">> :>
        <<"e", "v", "e", "n", "t", ".", "C", "R", "I", "T", "I", "C", "A", "L">>

\* Whether the gate lets event(msg, level) through at verbosity v.
EventAllowed(v, level) == v >= 3 \/ (v = 2 /\ level \notin DebugSpellings)

\* C12: the info role is in the style mapping of every instance, whatever
\* overrides it was built or switched with; an allowed event, of any level,
\* raises nothing and is coloured with the mapping's descriptor for
\* event.<LEVEL> when the mapping has that role and with the info role's
\* descriptor otherwise.
EventStyleResolves ==
    pc = "ready" =>
        /\ r_info \in DOMAIN cu.styles
        /\ (op.name = "event" /\ EventAllowed(cu.config.verbosity, op.args.level)) =>
            /\ exc = NoExc
            /\ Len(out) = 1
            /\ out[1].style.prefix =
                   IF LevelRole[op.args.level] \in DOMAIN cu.styles
                   THEN cu.styles[LevelRole[op.args.level]]
                   ELSE cu.styles[r_info]

\* A DEBUG event has been rendered by an instance whose mapping has no
\* event.DEBUG role: it is coloured with the info descriptor.
EventDebugFallsBackToInfo ==
    /\ pc = "ready"
    /\ op.name = "event"
    /\ op.args.level \in DebugSpellings
    /\ out # <<>>
    /\ r_event_DEBUG \notin DOMAIN cu.styles
    /\ out[1].style.prefix = cu.styles[r_info]

(* ---------- Two instances in one process ---------- *)

\* In this specification cu and pc hold one value per instance, and op names
\* the instance the call was made on.
Instances == {"cu1", "cu2"}

PairThemeArgs ==
    {n_dark,
     <<"L", "i", "g", "h", "t">>,
     <<"n", "e", "o", "n">>}

PairCustomStyleArgs == {<<>>, r_panel :> "not a style"}

PairVerbosityArgs == {0, 2}

PairLevelArgs == {3}

\* (emoji, timestamps) as drawn for the constructor.
PairFlagArgs == {<<TRUE, FALSE>>, <<FALSE, TRUE>>}

PairSecret == <<"p", "@", "s", "s">>

PairLevel == <<"I", "N", "F", "O">>

InitPair ==
    /\ PRESET_THEMES = PRESET_THEMES_0
    /\ cu = [i \in Instances |-> Unset]
    /\ pc = [i \in Instances |-> "new"]
    /\ op = [name |-> "none", args |-> <<>>, self |-> "none"]
    /\ out = <<>>
    /\ exc = NoExc
    /\ ret = <<>>

\* A call on instance i as it would be if the instance attributes were class
\* attributes: every constructed instance takes the state the call leaves.
ApplyOnShared(i, name, args, result) ==
    \E r \in {result} :
    /\ cu' = [j \in Instances |-> IF j = i \/ pc[j] = "ready" THEN r.self ELSE cu[j]]
    /\ pc' = [pc EXCEPT ![i] = IF name = "__init__" /\ r.exc = NoExc THEN "ready" ELSE @]
    /\ out' = r.out
    /\ exc' = r.exc
    /\ ret' = r.ret
    /\ op' = [name |-> name, args |-> args, self |-> i]
    /\ PRESET_THEMES' = r.presets

\* A call on instance i, with what it did: self is bound to that instance alone.
ApplyOn(i, name, args, result) ==
    \E r \in {result} :
    /\ cu' = [cu EXCEPT ![i] = r.self]
    /\ pc' = [pc EXCEPT ![i] = IF name = "__init__" /\ r.exc = NoExc THEN "ready" ELSE @]
    /\ out' = r.out
    /\ exc' = r.exc
    /\ ret' = r.ret
    /\ op' = [name |-> name, args |-> args, self |-> i]
    /\ PRESET_THEMES' = r.presets

\* The rendering method called name, with its optional arguments left out.
RenderWith(self, name, msg, now) ==
    CASE name = "success" -> success(self, msg)
      [] name = "info" -> info(self, msg)
      [] name = "warning" -> warning(self, msg)
      [] name = "error" -> error(self, msg)
      [] name = "event" -> event(self, msg, PairLevel, now)
      [] name = "header" -> header(self, msg, None)
      [] name = "rule" -> rule(self, <<>>, None, None)
      [] name = "spacer" -> spacer(self, [tag |-> "int", n |-> 1])
      [] name = "panel" -> panel(self, msg, None, None, [tag |-> "None"])
      [] name = "markdown" -> markdown(self, msg)
      [] name = "code" -> code(self, msg)
      [] name = "table" -> table(self, None)
      [] name = "dictionary" -> dictionary(self)
      [] name = "json" -> json(self)
      [] name = "tree" -> tree(self, msg)
      [] name = "key_value" -> key_value(self, msg, PairSecret, TRUE, 3, <<"*">>)

ConstructOn(i) ==
    /\ pc[i] = "new"
    /\ \E theme \in PairThemeArgs, flags \in PairFlagArgs,
          verbosity \in PairVerbosityArgs, custom_styles \in PairCustomStyleArgs :
        ApplyOn(i, "__init__",
                [theme |-> theme, verbosity |-> verbosity, custom_styles |-> custom_styles],
                ConsoleUtils(theme, flags[1], flags[2], verbosity, TRUE, custom_styles))

SetThemeOn(i) ==
    /\ pc[i] = "ready"
    /\ \E theme \in PairThemeArgs, custom_styles \in PairCustomStyleArgs :
        ApplyOn(i, "set_theme", [theme |-> theme, custom_styles |-> custom_styles],
                set_theme(cu[i], theme, custom_styles))

SetVerbosityOn(i) ==
    /\ pc[i] = "ready"
    /\ \E level \in PairLevelArgs :
        ApplyOn(i, "set_verbosity", [level |-> level], set_verbosity(cu[i], level))

RenderOn(i) ==
    /\ pc[i] = "ready"
    /\ \E name \in {"success", "info", "warning", "error", "event", "header", "rule",
                    "spacer", "panel", "markdown", "code", "table", "dictionary",
                    "json", "tree", "key_value"},
          msg \in Messages, now \in Clock :
        ApplyOn(i, name, <<>>, RenderWith(cu[i], name, msg, now))

MaskSecretOn(i) ==
    /\ pc[i] = "ready"
    /\ ApplyOn(i, "mask_secret", [secret |-> PairSecret, keep |-> 3, mask |-> <<"*">>],
               ReturnValue(cu[i], mask_secret(PairSecret, 3, <<"*">>)))

NextPair ==
    \E i \in Instances :
        \/ ConstructOn(i)
        \/ SetThemeOn(i)
        \/ SetVerbosityOn(i)
        \/ RenderOn(i)
        \/ MaskSecretOn(i)

SpecPair == InitPair /\ [][NextPair]_vars

\* The parts of ConsoleState of an instance value.
ThemeOf(inst) == <<inst.config.theme, inst.styles>>
FlagsOf(inst) == <<inst.config.emoji, inst.config.timestamps>>

\* One step of C13: the call op' names was made on instance op'.self.
FrameStep ==
    /\ \A j \in Instances \ {op'.self} : cu'[j] = cu[j] /\ pc'[j] = pc[j]
    /\ op'.name \in RenderOps \cup {"mask_secret"} =>
        /\ ThemeOf(cu'[op'.self]) = ThemeOf(cu[op'.self])
        /\ FlagsOf(cu'[op'.self]) = FlagsOf(cu[op'.self])
        /\ cu'[op'.self].config.verbosity = cu[op'.self].config.verbosity
    /\ op'.name = "set_verbosity" =>
        /\ ThemeOf(cu'[op'.self]) = ThemeOf(cu[op'.self])
        /\ FlagsOf(cu'[op'.self]) = FlagsOf(cu[op'.self])
    /\ op'.name = "set_theme" =>
        /\ FlagsOf(cu'[op'.self]) = FlagsOf(cu[op'.self])
        /\ cu'[op'.self].config.verbosity = cu[op'.self].config.verbosity

\* C13: a rendering operation or mask_secret leaves the theme name, the style
\* mapping, the verbosity and both flags of its instance as they were;
\* set_verbosity leaves the theme name, the mapping and the flags; set_theme
\* leaves the verbosity and the flags; and no call changes another instance.
StateFrame == [][FrameStep]_vars

\* set_theme has returned on cu2 while cu1 holds another theme, another
\* verbosity and other flags.
TwoInstancesDiffer ==
    /\ pc["cu1"] = "ready"
    /\ pc["cu2"] = "ready"
    /\ op.name = "set_theme"
    /\ op.self = "cu2"
    /\ exc = NoExc
    /\ cu["cu1"].config.theme # cu["cu2"].config.theme
    /\ cu["cu1"].config.verbosity # cu["cu2"].config.verbosity
    /\ FlagsOf(cu["cu1"]) # FlagsOf(cu["cu2"])
=============================================================================
